---- MODULE Spec2Model ----
(***************************************************************************)
(* django-simpledb: the query-translation layer of the SimpleDB backend.   *)
(*                                                                         *)
(* One BackendQuery (simpledb/compiler.py) with the SimpleDBQuery it owns  *)
(* (simpledb/query.py) is modelled as a state machine: every public        *)
(* operation is one action, translated from its Python source.  Python     *)
(* values are tagged records, Python strings are TLA+ strings (TLC         *)
(* evaluates \o, Len, SubSeq on them), Python dicts are functions over     *)
(* their keys.  save_entity, SQLInsertCompiler.insert and the two value    *)
(* conversions of SQLCompiler are actions of the same machine; the store   *)
(* (rows returned, exceptions raised, identifiers generated) is the        *)
(* environment and enters every action as an input.                        *)
(***************************************************************************)
EXTENDS Integers, Sequences, FiniteSets, TLC

VARIABLES
    pk_column,  \* self.query.get_meta().pk.column of the model
    filters,    \* SimpleDBQuery.filters
    sort_by,    \* SimpleDBQuery.sort_by
    limit,      \* SimpleDBQuery.limit
    offset,     \* SimpleDBQuery.offset
    last,       \* the last call made on the query: arguments and outcome
    calls       \* number of calls made so far (bounded by MaxCalls)

vars == <<pk_column, filters, sort_by, limit, offset, last, calls>>

(***************************************************************************)
(* Bounds of the model.                                                    *)
(***************************************************************************)
MaxCalls == 2
MaxStore == 3
MaxMark == 3

(***************************************************************************)
(* Python values.                                                          *)
(***************************************************************************)
None == [py |-> "NoneType"]
PyBool(b) == [py |-> "bool", bool |-> b]
PyInt(n) == [py |-> "int", int |-> n]
PyLong(n) == [py |-> "long", int |-> n]
PyUnicode(s) == [py |-> "unicode", text |-> s]
PyStr(s) == [py |-> "str", text |-> s]
PyList(xs) == [py |-> "list", items |-> xs]
PyDate(y, m, d) == [py |-> "date", year |-> y, month |-> m, day |-> d]
PyDatetime(y, m, d, hh, mm, ss, us) ==
    [py |-> "datetime", year |-> y, month |-> m, day |-> d,
     hour |-> hh, minute |-> mm, second |-> ss, microsecond |-> us]

\* an exception raised where a value was to be computed
Raise(exc) == [py |-> "raise", exc |-> exc]
IsRaise(v) == v.py = "raise"

\* a list built by a comprehension: the first exception an element raises
\* leaves the comprehension, otherwise the list
ListOf(items) ==
    IF \E i \in 1..Len(items) : IsRaise(items[i])
    THEN items[CHOOSE i \in 1..Len(items) :
                  /\ IsRaise(items[i])
                  /\ \A j \in 1..(i - 1) : ~IsRaise(items[j])]
    ELSE PyList(items)

\* Python's a == b on the values of the model: numbers compare by value
\* (1 == 1L), strings by their text, lists element by element
RECURSIVE PyEq(_, _)
PyEq(a, b) ==
    IF a.py \in {"int", "long"} /\ b.py \in {"int", "long"}
    THEN a.int = b.int
    ELSE IF a.py \in {"str", "unicode"} /\ b.py \in {"str", "unicode"}
    THEN a.text = b.text
    ELSE IF a.py = "list" /\ b.py = "list"
    THEN /\ Len(a.items) = Len(b.items)
         /\ \A i \in 1..Len(a.items) : PyEq(a.items[i], b.items[i])
    ELSE a = b

\* Python truth value testing (bool(v)).
Truthy(v) ==
    CASE v.py = "NoneType" -> FALSE
      [] v.py = "bool" -> v.bool
      [] v.py \in {"int", "long"} -> v.int # 0
      [] v.py \in {"unicode", "str"} -> v.text # ""
      [] v.py = "list" -> Len(v.items) > 0
      [] OTHER -> TRUE

\* Python 2 ordering of a mark against an int: None sorts below every number.
PyGreater(a, b) ==
    CASE a.py = "NoneType" -> FALSE
      [] b.py = "NoneType" -> TRUE
      [] OTHER -> a.int > b.int

(***************************************************************************)
(* String helpers.                                                         *)
(***************************************************************************)
Min(a, b) == IF a < b THEN a ELSE b

\* s.startswith(prefix)
StartsWith(s, prefix) ==
    /\ Len(s) >= Len(prefix)
    /\ SubSeq(s, 1, Len(prefix)) = prefix

\* s[n:]
SliceFrom(s, n) == SubSeq(s, n + 1, Len(s))

\* s.split(sep, 1)[1] for a one-character sep that occurs in s
SplitOnce1(s, sep) ==
    LET i == CHOOSE k \in 1..Len(s) :
                 /\ SubSeq(s, k, k) = sep
                 /\ \A j \in 1..(k - 1) : SubSeq(s, j, j) # sep
    IN  SubSeq(s, i + 1, Len(s))

UpperCase == "ABCDEFGHIJKLMNOPQRSTUVWXYZ"
LowerCase == "abcdefghijklmnopqrstuvwxyz"

LowerChar(c) ==
    IF \E i \in 1..Len(UpperCase) : SubSeq(UpperCase, i, i) = c
    THEN LET i == CHOOSE k \in 1..Len(UpperCase) : SubSeq(UpperCase, k, k) = c
         IN  SubSeq(LowerCase, i, i)
    ELSE c

\* s.lower()
RECURSIVE Lower(_)
Lower(s) ==
    IF s = "" THEN ""
    ELSE LowerChar(SubSeq(s, 1, 1)) \o Lower(SubSeq(s, 2, Len(s)))

Digits == "0123456789"

RECURSIVE NatToStr(_)
NatToStr(n) ==
    IF n < 10 THEN SubSeq(Digits, n + 1, n + 1)
    ELSE NatToStr(n \div 10) \o SubSeq(Digits, (n % 10) + 1, (n % 10) + 1)

\* str(n) for an int or long
IntToStr(n) == IF n < 0 THEN "-" \o NatToStr(0 - n) ELSE NatToStr(n)

\* a strftime field: n in decimal, zero-padded to width w
RECURSIVE ZeroPad(_, _)
ZeroPad(s, w) == IF Len(s) >= w THEN s ELSE ZeroPad("0" \o s, w)

\* value.strftime(DATE_ISO8601), '%Y-%m-%d' (years from 1900 on)
FormatDate(v) ==
    ZeroPad(NatToStr(v.year), 4) \o "-" \o ZeroPad(NatToStr(v.month), 2)
        \o "-" \o ZeroPad(NatToStr(v.day), 2)

\* value.strftime(DATETIME_ISO8601), '%Y-%m-%dT%H:%M:%S.%f'
FormatDatetime(v) ==
    FormatDate(v) \o "T" \o ZeroPad(NatToStr(v.hour), 2)
        \o ":" \o ZeroPad(NatToStr(v.minute), 2)
        \o ":" \o ZeroPad(NatToStr(v.second), 2)
        \o "." \o ZeroPad(NatToStr(v.microsecond), 6)

\* value.strftime(format) of Python 2: "years before 1900 cannot be used",
\* it raises ValueError for them
Strftime(value, text) ==
    IF value.year < 1900 THEN Raise("ValueError") ELSE PyUnicode(text)

IsDigit(c) == \E i \in 1..Len(Digits) : SubSeq(Digits, i, i) = c
DigitVal(c) == (CHOOSE i \in 1..Len(Digits) : SubSeq(Digits, i, i) = c) - 1
IsDigits(s) == Len(s) > 0 /\ \A i \in 1..Len(s) : IsDigit(SubSeq(s, i, i))

RECURSIVE StrToNat(_)
StrToNat(s) ==
    IF Len(s) = 0 THEN 0
    ELSE 10 * StrToNat(SubSeq(s, 1, Len(s) - 1))
            + DigitVal(SubSeq(s, Len(s), Len(s)))

\* int(text) / long(text) of a decimal numeral with an optional '-';
\* ValueError for a text that is no numeral
ParseInt(py, text) ==
    IF StartsWith(text, "-") /\ IsDigits(SliceFrom(text, 1))
    THEN [py |-> py, int |-> 0 - StrToNat(SliceFrom(text, 1))]
    ELSE IF IsDigits(text)
    THEN [py |-> py, int |-> StrToNat(text)]
    ELSE Raise("ValueError")

\* s padded with zeros on the right to width w (the %f of strptime)
RECURSIVE ZeroPadRight(_, _)
ZeroPadRight(s, w) == IF Len(s) >= w THEN s ELSE ZeroPadRight(s \o "0", w)

\* the fields of 'YYYY-MM-DD' at the head of s, as strptime reads the
\* zero-padded form
DateFieldsOk(s) ==
    /\ Len(s) >= 10
    /\ IsDigits(SubSeq(s, 1, 4))
    /\ SubSeq(s, 5, 5) = "-"
    /\ IsDigits(SubSeq(s, 6, 7))
    /\ SubSeq(s, 8, 8) = "-"
    /\ IsDigits(SubSeq(s, 9, 10))
    /\ StrToNat(SubSeq(s, 1, 4)) >= 1
    /\ StrToNat(SubSeq(s, 6, 7)) \in 1..12
    /\ StrToNat(SubSeq(s, 9, 10)) \in 1..31

\* datetime.datetime.strptime(value, DATE_ISO8601).date()
ParseDate(s) ==
    IF DateFieldsOk(s) /\ Len(s) = 10
    THEN PyDate(StrToNat(SubSeq(s, 1, 4)), StrToNat(SubSeq(s, 6, 7)),
                StrToNat(SubSeq(s, 9, 10)))
    ELSE Raise("ValueError")

\* datetime.datetime.strptime(value, DATETIME_ISO8601); %f reads one to six
\* digits and pads them on the right
ParseDatetime(s) ==
    IF /\ DateFieldsOk(s)
       /\ Len(s) \in 21..26
       /\ SubSeq(s, 11, 11) = "T"
       /\ IsDigits(SubSeq(s, 12, 13))
       /\ SubSeq(s, 14, 14) = ":"
       /\ IsDigits(SubSeq(s, 15, 16))
       /\ SubSeq(s, 17, 17) = ":"
       /\ IsDigits(SubSeq(s, 18, 19))
       /\ SubSeq(s, 20, 20) = "."
       /\ IsDigits(SubSeq(s, 21, Len(s)))
       /\ StrToNat(SubSeq(s, 12, 13)) \in 0..23
       /\ StrToNat(SubSeq(s, 15, 16)) \in 0..59
       /\ StrToNat(SubSeq(s, 18, 19)) \in 0..61
    THEN PyDatetime(StrToNat(SubSeq(s, 1, 4)), StrToNat(SubSeq(s, 6, 7)),
                    StrToNat(SubSeq(s, 9, 10)), StrToNat(SubSeq(s, 12, 13)),
                    StrToNat(SubSeq(s, 15, 16)), StrToNat(SubSeq(s, 18, 19)),
                    StrToNat(ZeroPadRight(SubSeq(s, 21, Len(s)), 6)))
    ELSE Raise("ValueError")

\* str(value) of an int, a long or a bool (bool is a subclass of int)
StrOfInt(v) ==
    IF v.py = "bool" THEN (IF v.bool THEN "True" ELSE "False")
    ELSE IntToStr(v.int)

(***************************************************************************)
(* SQLCompiler.convert_value_for_db                                        *)
(***************************************************************************)
RECURSIVE convert_value_for_db(_, _)
convert_value_for_db(db_type, value) ==
    IF value.py = "unicode" THEN value
    ELSE IF value.py = "str" THEN PyUnicode(value.text)
    ELSE IF /\ value.py = "list"
            /\ Len(value.items) > 0
            /\ StartsWith(db_type, "ListField:")
         THEN LET db_sub_type == SplitOnce1(db_type, ":")
              IN  ListOf([i \in 1..Len(value.items) |->
                            convert_value_for_db(db_sub_type, value.items[i])])
    ELSE IF value.py = "datetime" THEN Strftime(value, FormatDatetime(value))
    ELSE IF value.py = "date" THEN Strftime(value, FormatDate(value))
    ELSE IF value.py \in {"int", "long", "bool"} THEN PyUnicode(StrOfInt(value))
    ELSE value

(***************************************************************************)
(* SQLCompiler.convert_value_from_db                                       *)
(***************************************************************************)
\* long(value), int(value): of a string; TypeError for a list or None
ToInt(py, value) ==
    IF value.py \in {"unicode", "str"} THEN ParseInt(py, value.text)
    ELSE IF value.py \in {"int", "long"} THEN [py |-> py, int |-> value.int]
    ELSE Raise("TypeError")

\* strptime of a string; TypeError for anything else
ToDate(value) ==
    IF value.py \in {"unicode", "str"} THEN ParseDate(value.text)
    ELSE Raise("TypeError")

ToDatetime(value) ==
    IF value.py \in {"unicode", "str"} THEN ParseDatetime(value.text)
    ELSE Raise("TypeError")

RECURSIVE convert_value_from_db(_, _)
convert_value_from_db(db_type, value) ==
    IF /\ value.py = "list"
       /\ Len(value.items) > 0
       /\ StartsWith(db_type, "ListField:")
    THEN LET db_sub_type == SplitOnce1(db_type, ":")
         IN  ListOf([i \in 1..Len(value.items) |->
                       convert_value_from_db(db_sub_type, value.items[i])])
    ELSE IF db_type = "long" THEN ToInt("long", value)
    ELSE IF db_type = "int" THEN ToInt("int", value)
    ELSE IF db_type = "date" THEN ToDate(value)
    ELSE IF db_type = "datetime" THEN ToDatetime(value)
    ELSE IF value.py = "str" THEN PyUnicode(value.text)
    ELSE value

\* convert_value_from_db(tag, convert_value_for_db(tag, v)): an exception of
\* the inner call leaves the expression
RoundTrip(db_type, value) ==
    LET stored == convert_value_for_db(db_type, value)
    IN  [stored |-> stored,
         loaded |-> IF IsRaise(stored) THEN stored
                    ELSE convert_value_from_db(db_type, stored)]

(***************************************************************************)
(* safe_call.  The outcome of a call is a record: raised is the exception  *)
(* that leaves it ("none" when it returns) and args the exception's        *)
(* arguments.                                                              *)
(***************************************************************************)
\* the exceptions of the store client that safe_call catches
StoreErrors == {"BotoClientError", "SDBPersistenceError", "BotoServerError"}

\* raise DatabaseError, DatabaseError(*tuple(e)), sys.exc_info()[2]
safe_call(outcome) ==
    IF outcome.raised \in StoreErrors
    THEN [outcome EXCEPT !.raised = "DatabaseError"]
    ELSE outcome

\* a call of a generator function (one whose body yields) returns the
\* generator and runs nothing; the body runs when the caller iterates
GeneratorCall(body) == [raised |-> "none", args |-> <<>>, iterate |-> body]

\* what the caller of a safe_call-wrapped generator function observes once
\* it has iterated: the wrapper has returned before the body starts
IterateGenerator(call) == IF call.raised # "none" THEN call ELSE call.iterate

(***************************************************************************)
(* Operator tables (simpledb/compiler.py).  The 'isnull' entries are        *)
(* lambdas; an entry that is callable is written "lambda:<table>".          *)
(***************************************************************************)
AWS_MAX_RESULT_SIZE == 2500

\* variant: 'gte' mapped to the strict operator
OPERATORS_MAP_GteStrict ==
    [exact |-> "=", gt |-> ">", gte |-> ">", lt |-> "<", lte |-> "<=",
     isnull |-> "lambda:OPERATORS_MAP"]

OPERATORS_MAP ==
    [exact |-> "=", gt |-> ">", gte |-> ">=", lt |-> "<", lte |-> "<=",
     isnull |-> "lambda:OPERATORS_MAP"]

\* variant: the commented-out 'startswith' entry filled in
NEGATION_MAP_WithStartswith ==
    [exact |-> "!=", gt |-> "<=", gte |-> "<", lt |-> ">=", lte |-> ">",
     isnull |-> "lambda:NEGATION_MAP", startswith |-> "!="]

NEGATION_MAP ==
    [exact |-> "!=", gt |-> "<=", gte |-> "<", lt |-> ">=", lte |-> ">",
     isnull |-> "lambda:NEGATION_MAP"]

\* OPERATORS_MAP['isnull'](lookup_type, value)
OperatorsIsnull(lookup_type, value) ==
    <<IF Truthy(value) THEN "=" ELSE "!=", None>>

\* variant: the negated lambda a copy of the plain one
NegationIsnull_NotInverted(lookup_type, value) ==
    <<IF Truthy(value) THEN "=" ELSE "!=", None>>

\* NEGATION_MAP['isnull'](lookup_type, value)
NegationIsnull(lookup_type, value) ==
    <<IF Truthy(value) THEN "!=" ELSE "=", None>>

\* callable(op)
Callable(op) == StartsWith(op, "lambda:")

\* op(lookup_type, value) for a callable table entry
CallOp(op, lookup_type, value) ==
    IF op = "lambda:OPERATORS_MAP" THEN OperatorsIsnull(lookup_type, value)
    ELSE NegationIsnull(lookup_type, value)

\* variant: no rewrite
PkRewrite_Never(pk, column) == column

\* the pk rewrite: if column == self.query.get_meta().pk.column: column = '_id'
PkRewrite(pk, column) == IF column = pk THEN "_id" ELSE column

\* '%s %s' % (column, op)
FilterKey(column, op) == column \o " " \o op

\* variant: the candidates converted but not wrapped
InDbValue_Flat(db_type, value) ==
    PyList([i \in 1..Len(value.items) |->
              convert_value_for_db(db_type, value.items[i])])

\* [[self.convert_value_for_db(db_type, v)] for v in value]
InDbValue(db_type, value) ==
    ListOf([i \in 1..Len(value.items) |->
              ListOf(<<convert_value_for_db(db_type, value.items[i])>>)])

(***************************************************************************)
(* BackendQuery.add_filter: the exception it raises ("none" when it        *)
(* returns) and the entry it passes to self.db_query.filter.               *)
(***************************************************************************)
\* variant: the commented-out "op = '!='" in place of the raise
InOp_NegatedNotEqual(negated) ==
    [raised |-> "none", op |-> IF negated THEN "!=" ELSE "="]

\* the 'in' special case: negated raises, otherwise op = '='
InOp(negated) ==
    IF negated THEN [raised |-> "NotImplementedError"]
    ELSE [raised |-> "none", op |-> "="]

add_filter(pk, column, lookup_type, negated, db_type, value) ==
    LET col == PkRewrite(pk, column) IN
    IF lookup_type = "in"
    THEN LET o == InOp(negated) IN
         IF o.raised # "none"
         THEN [raised |-> o.raised]
         ELSE LET db_value == InDbValue(db_type, value) IN
              IF IsRaise(db_value)
              THEN [raised |-> db_value.exc]
              ELSE [raised |-> "none",
                    entry |-> <<FilterKey(col, o.op), db_value>>]
    ELSE LET table == IF negated THEN NEGATION_MAP ELSE OPERATORS_MAP IN
         IF lookup_type \notin DOMAIN table
         THEN [raised |-> "DatabaseError",
               message |-> IF negated THEN "can't be negated"
                                      ELSE "isn't supported"]
         ELSE LET op0 == table[lookup_type]
                  pair == IF Callable(op0)
                          THEN CallOp(op0, lookup_type, value)
                          ELSE <<op0, value>>
                  db_value == convert_value_for_db(db_type, pair[2])
              IN  IF IsRaise(db_value)
                  THEN [raised |-> db_value.exc]
                  ELSE [raised |-> "none",
                        entry |-> <<FilterKey(col, pair[1]), db_value>>]

(***************************************************************************)
(* SimpleDBQuery.add_ordering: the exception it raises and the sort key    *)
(* the query holds afterwards.                                             *)
(***************************************************************************)
\* the signed sort key of (column, direction)
SortKey(column, direction) ==
    IF Lower(direction) = "desc" THEN PyStr("-" \o column) ELSE PyStr(column)

\* variant: a different sort key replaces the one set
add_ordering_Overwrite(cur, column, direction) ==
    [raised |-> "none", sort_by |-> SortKey(column, direction)]

add_ordering(cur, column, direction) ==
    LET new == SortKey(column, direction) IN
    IF Truthy(cur) /\ cur # new
    THEN [raised |-> "NotImplementedError", sort_by |-> cur]
    ELSE [raised |-> "none", sort_by |-> new]

(***************************************************************************)
(* BackendQuery.order_by                                                   *)
(***************************************************************************)
\* variant: the sign kept in the column
ParseOrder_KeepSign(order) ==
    IF StartsWith(order, "-")
    THEN [column |-> order, direction |-> "DESC"]
    ELSE [column |-> order, direction |-> "ASC"]

\* one ordering entry split into (column, direction)
ParseOrder(order) ==
    IF StartsWith(order, "-")
    THEN [column |-> SliceFrom(order, 1), direction |-> "DESC"]
    ELSE [column |-> order, direction |-> "ASC"]

\* the loop over ordering from entry i on; made: the arguments of the
\* add_ordering calls made so far
RECURSIVE order_by_from(_, _, _, _, _)
order_by_from(pk, cur, ordering, i, made) ==
    IF i > Len(ordering)
    THEN [raised |-> "none", sort_by |-> cur, made |-> made]
    ELSE LET parsed == ParseOrder(ordering[i])
             column == PkRewrite(pk, parsed.column)
             r == add_ordering(cur, column, parsed.direction)
             made2 == Append(made, [parsed |-> parsed.column, column |-> column,
                                    direction |-> parsed.direction])
         IN  IF r.raised # "none"
             THEN [raised |-> r.raised, sort_by |-> r.sort_by, made |-> made2]
             ELSE order_by_from(pk, r.sort_by, ordering, i + 1, made2)

order_by(pk, cur, ordering) == order_by_from(pk, cur, ordering, 1, <<>>)

(***************************************************************************)
(* The store client.  SDBManager.query(query) runs the select with          *)
(* "limit <query.limit>" when the query has a limit; it never reads         *)
(* query.offset (a SimpleDB select has no offset).                          *)
(***************************************************************************)
ManagerQuery(rows, lim, off) ==
    IF Truthy(lim) THEN SubSeq(rows, 1, Min(lim.int, Len(rows))) ELSE rows

\* SimpleDBQuery.fetch_infinite(offset): the offset argument is unused
fetch_infinite(rows, lim, off, low_mark) ==
    [limit |-> lim, offset |-> off, results |-> ManagerQuery(rows, lim, off)]

\* SimpleDBQuery.fetch_range(count, low_mark):
\*   self.fetch(offset=low_mark, limit=low_mark+count), then manager.query(self)
fetch_range(rows, count, low_mark) ==
    LET lim == PyInt(low_mark.int + count)
        off == low_mark
    IN  [limit |-> lim, offset |-> off, results |-> ManagerQuery(rows, lim, off)]

\* entity[pk] = entity['_id']; del entity['_id']
RenamePk(pk, entity) ==
    LET set == [k \in DOMAIN entity \cup {pk} |->
                   IF k = pk THEN entity["_id"] ELSE entity[k]]
    IN  [k \in DOMAIN set \ {"_id"} |-> set[k]]

(***************************************************************************)
(* BackendQuery.fetch, consumed to the end: the entities it yields and the *)
(* limit and offset it leaves on the query.                                *)
(***************************************************************************)
fetch(pk, rows, lim, off, low_mark, high_mark) ==
    LET over == PyGreater(high_mark, PyInt(AWS_MAX_RESULT_SIZE))
        reslice == IF over THEN high_mark.int ELSE 0
        high == IF over THEN None ELSE high_mark
        r == IF high = None
             THEN LET f == fetch_infinite(rows, lim, off, low_mark) IN
                  [f EXCEPT !.results =
                      IF reslice # 0
                      THEN SubSeq(f.results, 1, Min(reslice, Len(f.results)))
                      ELSE f.results]
             ELSE IF PyGreater(high, low_mark)
             THEN fetch_range(rows, high.int - low_mark.int, low_mark)
             ELSE [limit |-> lim, offset |-> off, results |-> <<>>]
    IN  [limit |-> r.limit, offset |-> r.offset,
         queried |-> (high = None \/ PyGreater(high, low_mark)),
         entities |-> [i \in 1..Len(r.results) |-> RenamePk(pk, r.results[i])]]

(***************************************************************************)
(* save_entity and SQLInsertCompiler.insert.  A dict is a function over    *)
(* its keys; d1 @@ d2 is d2.update(d1).                                    *)
(***************************************************************************)
\* simpledb.utils.domain_for_model: the domain of a model, named after it
domain_for_model(model) == "simpledb_" \o Lower(model)

\* variant: the discriminator left out
InitialAttrs_NoType(domain_name, data) == data

\* attrs = {'__type__': domain_name}; attrs.update(data)
InitialAttrs(domain_name, data) == data @@ ("__type__" :> PyStr(domain_name))

\* variant: a fresh identifier whatever attrs holds
WithId_AlwaysNew(attrs, uuid4) == ("_id" :> uuid4) @@ attrs

\* if not attrs.has_key('_id'): attrs['_id'] = uuid.uuid4().int
WithId(attrs, uuid4) ==
    IF "_id" \notin DOMAIN attrs THEN ("_id" :> uuid4) @@ attrs ELSE attrs

\* uuid4: the value uuid.uuid4().int has if it is called; store: what
\* domain.put_attributes does.  put is the put_attributes call made,
\* generated tells whether uuid.uuid4() was called.
save_entity(model, data, uuid4, store) ==
    LET domain_name == domain_for_model(model)
        attrs0 == InitialAttrs(domain_name, data)
        attrs == WithId(attrs0, uuid4)
    IN  [raised |-> store.raised, args |-> store.args,
         generated |-> (attrs # attrs0),
         put |-> [domain |-> domain_name, item_name |-> attrs["_id"],
                  attributes |-> attrs, replace |-> TRUE],
         data |-> data,
         value |-> IF store.raised = "none" THEN attrs["_id"] ELSE None]

\* if pk_column in data: data['_id'] = data[pk_column]; del data[pk_column]
RenameForInsert(pk, data) ==
    IF pk \in DOMAIN data
    THEN LET set == ("_id" :> data[pk]) @@ data
         IN  [k \in DOMAIN set \ {pk} |-> set[k]]
    ELSE data

\* SQLInsertCompiler.insert, under safe_call; passed: the data save_entity
\* is called with
insert(pk, model, data, uuid4, store) ==
    LET passed == RenameForInsert(pk, data)
        r == save_entity(model, passed, uuid4, store)
    IN  [call |-> safe_call(r), passed |-> passed, saved |-> r]

(***************************************************************************)
(* Inputs.                                                                 *)
(***************************************************************************)
Columns == {"name", "id"}
\* the pk column of the model, the reserved name itself among them
PkColumns == {"id", "name", "_id"}
LookupTypes ==
    {"exact", "gt", "gte", "lt", "lte", "isnull", "in",
     "startswith", "range", "year"}
Directions == {"ASC", "DESC", "desc"}

\* (db_type, value) pairs a lookup is called with: between them the
\* comparison lookups cover every branch of convert_value_for_db
ArgsOf(lookup_type) ==
    CASE lookup_type = "exact" ->
            { <<"unicode", PyUnicode("x")>>, <<"unicode", PyStr("y")>> }
      [] lookup_type = "gt" ->
            { <<"int", PyInt(12)>>, <<"long", PyLong(0 - 3)>> }
      [] lookup_type = "gte" ->
            { <<"date", PyDate(2008, 6, 10)>> }
      [] lookup_type = "lt" ->
            { <<"datetime", PyDatetime(2008, 6, 10, 14, 2, 36, 250000)>> }
      [] lookup_type = "lte" ->
            { <<"ListField:int", PyList(<<PyInt(1), PyInt(2)>>)>>,
              <<"bool", PyBool(TRUE)>> }
      [] lookup_type = "isnull" ->
            { <<"bool", PyBool(TRUE)>>, <<"bool", PyBool(FALSE)>>,
              <<"int", PyInt(0)>> }
      [] lookup_type = "in" ->
            { <<"unicode", PyList(<<>>)>>,
              <<"unicode", PyList(<<PyStr("x"), PyStr("y")>>)>>,
              <<"int", PyList(<<PyInt(7)>>)>> }
      [] OTHER ->
            { <<"unicode", PyUnicode("x")>> }

OrderEntries == Columns \cup {"-" \o c : c \in Columns}
Orderings ==
    {<<>>} \cup {<<e>> : e \in OrderEntries}
           \cup {<<e, f>> : e \in OrderEntries, f \in OrderEntries}

\* low and high marks: small windows and the ones around the ceiling
Marks == (0..MaxMark) \cup (AWS_MAX_RESULT_SIZE..(AWS_MAX_RESULT_SIZE + 2))
LowMarks == {PyInt(n) : n \in Marks}
HighMarks == {None} \cup {PyInt(n) : n \in Marks}

\* what a call of the store client does: it returns, or raises one of its
\* exceptions with arguments
NoFailure == [raised |-> "none", args |-> <<>>]
StoreFailures ==
    {[raised |-> e, args |-> <<"503", "Service Unavailable">>] : e \in StoreErrors}

\* (db_type, value) pairs of the tags with both directions defined, the
\* value of the type of the tag: dates and datetimes at the ends of the range
\* of datetime (years 1 to 9999) and around 1900
Dates ==
    { PyDate(2008, 6, 10), PyDate(1900, 1, 1), PyDate(1899, 12, 31),
      PyDate(9999, 12, 31), PyDate(1, 1, 1) }
Datetimes ==
    { PyDatetime(2008, 6, 10, 14, 2, 36, 250000),
      PyDatetime(1900, 1, 1, 0, 0, 0, 0),
      PyDatetime(1999, 12, 31, 23, 59, 59, 999999),
      PyDatetime(2010, 10, 10, 10, 10, 10, 7),
      PyDatetime(1899, 12, 31, 23, 59, 59, 0) }
Longs == { PyLong(1), PyLong(0), PyLong(0 - 3), PyLong(1234567890), PyInt(1) }
Ints == { PyInt(1), PyInt(0), PyInt(0 - 12), PyInt(2500) }
ScalarArgs ==
    {<<"date", v>> : v \in Dates} \cup {<<"datetime", v>> : v \in Datetimes}
        \cup {<<"long", v>> : v \in Longs} \cup {<<"int", v>> : v \in Ints}
ConvertArgs ==
    ScalarArgs
        \cup {<<"ListField:" \o a[1], PyList(<<a[2]>>)>> : a \in ScalarArgs}
        \cup {<<"ListField:" \o t, PyList(<<>>)>> :
                 t \in {"date", "datetime", "long", "int"}}
        \cup { <<"ListField:int", PyList(<<PyInt(1), PyInt(2)>>)>>,
               <<"ListField:date",
                 PyList(<<PyDate(2008, 6, 10), PyDate(1899, 12, 31)>>)>>,
               <<"ListField:ListField:long",
                 PyList(<<PyList(<<PyLong(1)>>),
                          PyList(<<PyLong(2), PyLong(0 - 3)>>)>>)>> }

\* (db_type, value) pairs as the store returns them
StoredArgs ==
    { <<"date", PyUnicode("2008-06-10")>>,
      <<"datetime", PyUnicode("2008-06-10T14:02:36.25")>>,
      <<"datetime", PyUnicode("2008-06-10T14:02:36.250000")>>,
      <<"long", PyStr("1")>>, <<"int", PyUnicode("-12")>>,
      <<"unicode", PyStr("foo")>>, <<"unicode", PyUnicode("foo")>>,
      <<"date", PyUnicode("10/06/2008")>>, <<"int", PyUnicode("x")>>,
      <<"ListField:int", PyList(<<PyUnicode("1"), PyUnicode("2")>>)>> }

\* the models of simpledb/tests.py
Models == {"M", "X"}

\* values uuid.uuid4().int can take
Uuids == {PyLong(1001), PyLong(1002)}

\* the data of a save: with and without the identifier, the discriminator,
\* and the columns a primary key can have
DataSets ==
    LET foo == "name" :> PyUnicode("foo")
        id0 == "_id" :> PyUnicode("xxxx")
        fizz == "id" :> PyUnicode("fizz")
        type == "__type__" :> PyUnicode("other")
    IN  { << >>, foo, id0, foo @@ id0, foo @@ fizz, id0 @@ fizz,
          foo @@ type, foo @@ id0 @@ type }

\* row i of the store, as the store client returns it
Row(i) ==
    [k \in {"_id", "title"} |->
        IF k = "_id" THEN PyUnicode(NatToStr(i))
        ELSE PyUnicode("t" \o NatToStr(i))]
Rows(n) == [i \in 1..n |-> Row(i)]

(***************************************************************************)
(* The state machine.                                                      *)
(***************************************************************************)
\* BackendQuery.__init__ / SimpleDBQuery.__init__
Init ==
    /\ pk_column \in PkColumns
    /\ filters = <<>>
    /\ sort_by = None
    /\ limit = None
    /\ offset = PyInt(0)
    /\ last = [op |-> "init"]
    /\ calls = 0

\* variant: the entry put in front of the list
db_query_filter_Prepend(fs, entry) == <<entry>> \o fs

\* self.db_query.filter(key, db_value): the entry goes to the end of
\* self.filters
db_query_filter(fs, entry) == Append(fs, entry)

AddFilter(column, lookup_type, negated, db_type, value) ==
    /\ calls < MaxCalls
    /\ calls' = calls + 1
    /\ LET r == add_filter(pk_column, column, lookup_type, negated, db_type, value)
       IN  /\ filters' = IF r.raised = "none"
                         THEN db_query_filter(filters, r.entry)
                         ELSE filters
           /\ last' = [op |-> "add_filter", column |-> column,
                       lookup_type |-> lookup_type, negated |-> negated,
                       db_type |-> db_type, value |-> value,
                       raised |-> r.raised]
    /\ UNCHANGED <<pk_column, sort_by, limit, offset>>

AddOrdering(column, direction) ==
    /\ calls < MaxCalls
    /\ calls' = calls + 1
    /\ LET r == add_ordering(sort_by, column, direction)
       IN  /\ sort_by' = r.sort_by
           /\ last' = [op |-> "add_ordering", column |-> column,
                       direction |-> direction, raised |-> r.raised]
    /\ UNCHANGED <<pk_column, filters, limit, offset>>

OrderBy(ordering) ==
    /\ calls < MaxCalls
    /\ calls' = calls + 1
    /\ LET r == order_by(pk_column, sort_by, ordering)
       IN  /\ sort_by' = r.sort_by
           /\ last' = [op |-> "order_by", ordering |-> ordering,
                       made |-> r.made, raised |-> r.raised]
    /\ UNCHANGED <<pk_column, filters, limit, offset>>

\* rows: what the store holds for the query when the fetch runs; store: what
\* the store client does when the query is run.  The caller iterates the
\* generator to its end.
Fetch(low_mark, high_mark, rows, store) ==
    /\ calls < MaxCalls
    /\ calls' = calls + 1
    /\ LET r == fetch(pk_column, rows, limit, offset, low_mark, high_mark)
           body == IF r.queried THEN store ELSE NoFailure
           seen == IterateGenerator(safe_call(GeneratorCall(body)))
       IN  /\ store # NoFailure => r.queried
           /\ limit' = r.limit
           /\ offset' = r.offset
           /\ last' = [op |-> "fetch", low_mark |-> low_mark,
                       high_mark |-> high_mark, rows |-> rows, store |-> store,
                       raised |-> seen.raised, args |-> seen.args,
                       result |-> IF seen.raised = "none" THEN r.entities
                                  ELSE <<>>]
    /\ UNCHANGED <<pk_column, filters, sort_by>>

\* BackendQuery.count: the store client counts (n) or raises
Count(n, store) ==
    /\ calls < MaxCalls
    /\ calls' = calls + 1
    /\ LET seen == safe_call(store)
       IN  last' = [op |-> "count", store |-> store, raised |-> seen.raised,
                    args |-> seen.args,
                    result |-> IF seen.raised = "none" THEN PyInt(n) ELSE None]
    /\ UNCHANGED <<pk_column, filters, sort_by, limit, offset>>

\* BackendQuery.delete: the store client deletes or raises
Delete(store) ==
    /\ calls < MaxCalls
    /\ calls' = calls + 1
    /\ LET seen == safe_call(store)
       IN  last' = [op |-> "delete", store |-> store, raised |-> seen.raised,
                    args |-> seen.args]
    /\ UNCHANGED <<pk_column, filters, sort_by, limit, offset>>

\* save_entity called on its own (no safe_call around it)
SaveEntity(model, data, uuid4, store) ==
    /\ calls < MaxCalls
    /\ calls' = calls + 1
    /\ LET r == save_entity(model, data, uuid4, store)
       IN  last' = [op |-> "save_entity", model |-> model, data |-> data,
                    uuid4 |-> uuid4, store |-> store, raised |-> r.raised,
                    args |-> r.args, generated |-> r.generated, put |-> r.put,
                    data_after |-> r.data, result |-> r.value]
    /\ UNCHANGED <<pk_column, filters, sort_by, limit, offset>>

\* SQLInsertCompiler.insert on a model whose pk column is pk_column
Insert(model, data, uuid4, store) ==
    /\ calls < MaxCalls
    /\ calls' = calls + 1
    /\ LET r == insert(pk_column, model, data, uuid4, store)
       IN  last' = [op |-> "insert", model |-> model, data |-> data,
                    uuid4 |-> uuid4, store |-> store, raised |-> r.call.raised,
                    args |-> r.call.args, passed |-> r.passed,
                    saved |-> r.saved, result |-> r.call.value]
    /\ UNCHANGED <<pk_column, filters, sort_by, limit, offset>>

\* a value written and read back: convert_value_from_db(db_type,
\* convert_value_for_db(db_type, value))
Convert(db_type, value) ==
    /\ calls < MaxCalls
    /\ calls' = calls + 1
    /\ LET r == RoundTrip(db_type, value)
       IN  last' = [op |-> "convert", db_type |-> db_type, value |-> value,
                    stored |-> r.stored, loaded |-> r.loaded]
    /\ UNCHANGED <<pk_column, filters, sort_by, limit, offset>>

\* a stored value read: convert_value_from_db(db_type, value)
ConvertFromDb(db_type, value) ==
    /\ calls < MaxCalls
    /\ calls' = calls + 1
    /\ last' = [op |-> "convert_from_db", db_type |-> db_type, value |-> value,
                loaded |-> convert_value_from_db(db_type, value)]
    /\ UNCHANGED <<pk_column, filters, sort_by, limit, offset>>

\* building the query: filters and ordering
NextQuery ==
    \/ \E column \in Columns, lookup_type \in LookupTypes, negated \in BOOLEAN :
         \E a \in ArgsOf(lookup_type) :
            AddFilter(column, lookup_type, negated, a[1], a[2])
    \/ \E column \in Columns, direction \in Directions :
         AddOrdering(column, direction)
    \/ \E ordering \in Orderings : OrderBy(ordering)

\* running the query
NextFetch ==
    \/ \E low_mark \in LowMarks, high_mark \in HighMarks, n \in 0..MaxStore :
          Fetch(low_mark, high_mark, Rows(n), NoFailure)
    \/ \E low_mark \in LowMarks, high_mark \in HighMarks, store \in StoreFailures :
          Fetch(low_mark, high_mark, Rows(0), store)
    \/ \E n \in 0..MaxStore, store \in {NoFailure} \cup StoreFailures :
          Count(n, store)
    \/ \E store \in {NoFailure} \cup StoreFailures : Delete(store)

\* writing an entity
NextSave ==
    \/ \E model \in Models, data \in DataSets, uuid4 \in Uuids,
          store \in {NoFailure} \cup StoreFailures :
          SaveEntity(model, data, uuid4, store)
    \/ \E model \in Models, data \in DataSets, uuid4 \in Uuids,
          store \in {NoFailure} \cup StoreFailures :
          Insert(model, data, uuid4, store)

\* converting values
NextConvert ==
    \/ \E a \in ConvertArgs : Convert(a[1], a[2])
    \/ \E a \in StoredArgs : ConvertFromDb(a[1], a[2])

Next == NextQuery \/ NextFetch \/ NextSave \/ NextConvert

Spec == Init /\ [][Next]_vars
SpecQuery == Init /\ [][NextQuery]_vars
SpecFetch == Init /\ [][NextFetch]_vars
SpecSave == Init /\ [][NextSave]_vars
SpecConvert == Init /\ [][NextConvert]_vars

(***************************************************************************)
(* Properties.                                                             *)
(***************************************************************************)
\* the step is a call of the named operation
IsCall(op) == calls' = calls + 1 /\ last'.op = op

\* the column a filter or sort key is written with (section 4.2, step 1)
Attr(column) == IF column = pk_column THEN "_id" ELSE column

SimpleLookups == {"exact", "gt", "gte", "lt", "lte"}
SupportedLookups == SimpleLookups \cup {"isnull", "in"}

\* C1: for every lookup type in {exact, gt, gte, lt, lte}, column and value,
\* add_filter appends one filter whose key is '<column> <operator>', the
\* operator being = > >= < <= when not negated and != <= < >= > when
\* negated, and whose value is the coerced input value.
C1_OperatorTable ==
    [][ (IsCall("add_filter") /\ last'.lookup_type \in SimpleLookups) =>
          LET c == last'
              operator ==
                  CASE c.lookup_type = "exact" -> IF c.negated THEN "!=" ELSE "="
                    [] c.lookup_type = "gt" -> IF c.negated THEN "<=" ELSE ">"
                    [] c.lookup_type = "gte" -> IF c.negated THEN "<" ELSE ">="
                    [] c.lookup_type = "lt" -> IF c.negated THEN ">=" ELSE "<"
                    [] c.lookup_type = "lte" -> IF c.negated THEN ">" ELSE "<="
              coerced ==
                  CASE c.value = PyStr("y") -> PyUnicode("y")
                    [] c.value = PyInt(12) -> PyUnicode("12")
                    [] c.value = PyLong(0 - 3) -> PyUnicode("-3")
                    [] c.value = PyBool(TRUE) -> PyUnicode("True")
                    [] c.value = PyDate(2008, 6, 10) -> PyUnicode("2008-06-10")
                    [] c.value = PyDatetime(2008, 6, 10, 14, 2, 36, 250000) ->
                           PyUnicode("2008-06-10T14:02:36.250000")
                    [] c.value = PyList(<<PyInt(1), PyInt(2)>>) ->
                           PyList(<<PyUnicode("1"), PyUnicode("2")>>)
                    [] OTHER -> c.value
          IN  /\ c.raised = "none"
              /\ coerced = convert_value_for_db(c.db_type, c.value)
              /\ filters' = Append(filters,
                                   <<Attr(c.column) \o " " \o operator, coerced>>)
      ]_vars

\* C1 witness: a negated 'gte' on a date has been translated to '<'.
C1_Witness ==
    /\ last.op = "add_filter"
    /\ last.lookup_type = "gte"
    /\ last.negated
    /\ last.column = "name"
    /\ pk_column = "id"
    /\ filters[Len(filters)] = <<"name <", PyUnicode("2008-06-10")>>

\* C2: an 'isnull' lookup appends a comparison against NULL (value None,
\* the caller's value discarded): '=' for a truthy and '!=' for a falsy
\* value when not negated, the inverse when negated, so that negated
\* isnull(v) gives the filter of non-negated isnull(not v).
C2_IsNull ==
    [][ (IsCall("add_filter") /\ last'.lookup_type = "isnull") =>
          LET c == last'
              truthy == c.value \in {PyBool(TRUE)}
              falsy == c.value \in {PyBool(FALSE), PyInt(0)}
              operator == IF c.negated
                          THEN (IF truthy THEN "!=" ELSE "=")
                          ELSE (IF truthy THEN "=" ELSE "!=")
              flipped == add_filter(pk_column, c.column, "isnull", ~c.negated,
                                    c.db_type, PyBool(~truthy))
          IN  /\ truthy \/ falsy
              /\ c.raised = "none"
              /\ filters' = Append(filters,
                                   <<Attr(c.column) \o " " \o operator, None>>)
              /\ flipped.raised = "none"
              /\ filters' = Append(filters, flipped.entry)
      ]_vars

\* C2 witness: a negated isnull on a falsy value has given '= NULL'.
C2_Witness ==
    /\ last.op = "add_filter"
    /\ last.lookup_type = "isnull"
    /\ last.negated
    /\ last.value = PyInt(0)
    /\ last.column = "name"
    /\ pk_column = "id"
    /\ filters[Len(filters)] = <<"name =", None>>

\* C3: add_filter with a lookup type outside the supported set, negated or
\* not, raises DatabaseError and leaves the filter list and the sort key as
\* they were.
C3_UnsupportedLookup ==
    [][ (IsCall("add_filter") /\ last'.lookup_type \notin SupportedLookups) =>
          /\ last'.raised = "DatabaseError"
          /\ filters' = filters
          /\ sort_by' = sort_by
      ]_vars

\* C3 witness: a negated 'startswith' was rejected on a query that holds a
\* filter.
C3_Witness ==
    /\ last.op = "add_filter"
    /\ last.lookup_type = "startswith"
    /\ last.negated
    /\ last.raised = "DatabaseError"
    /\ Len(filters) = 1

\* C4: add_filter with lookup type 'in' and negated = True raises
\* NotImplementedError, whatever the column and the value list, and appends
\* no filter.
C4_NegatedIn ==
    [][ (IsCall("add_filter") /\ last'.lookup_type = "in" /\ last'.negated) =>
          /\ last'.raised = "NotImplementedError"
          /\ filters' = filters
      ]_vars

\* C4 witness: a negated 'in' over two candidates was refused on a query
\* that holds a filter.
C4_Witness ==
    /\ last.op = "add_filter"
    /\ last.lookup_type = "in"
    /\ last.negated
    /\ last.value = PyList(<<PyStr("x"), PyStr("y")>>)
    /\ last.raised = "NotImplementedError"
    /\ Len(filters) = 1

\* C5: add_filter with lookup type 'in' and negated = False appends exactly
\* one filter with operator '=' whose value is a list holding one
\* single-element list per candidate, in the order and of the length of the
\* input, each candidate coerced on its own.
C5_InLookup ==
    [][ (IsCall("add_filter") /\ last'.lookup_type = "in" /\ ~last'.negated) =>
          LET c == last'
              n == Len(c.value.items)
              wrapped == PyList([i \in 1..n |->
                            PyList(<<convert_value_for_db(c.db_type,
                                                          c.value.items[i])>>)])
          IN  /\ c.raised = "none"
              /\ filters' = Append(filters, <<Attr(c.column) \o " =", wrapped>>)
              /\ Len(wrapped.items) = n
              /\ c.value = PyList(<<PyStr("x"), PyStr("y")>>) =>
                    wrapped = PyList(<<PyList(<<PyUnicode("x")>>),
                                       PyList(<<PyUnicode("y")>>)>>)
              /\ c.value = PyList(<<PyInt(7)>>) =>
                    wrapped = PyList(<<PyList(<<PyUnicode("7")>>)>>)
      ]_vars

\* C5 witness: ['x', 'y'] on column name has become ('name =', [['x'], ['y']]).
C5_Witness ==
    /\ last.op = "add_filter"
    /\ last.lookup_type = "in"
    /\ ~last.negated
    /\ last.value = PyList(<<PyStr("x"), PyStr("y")>>)
    /\ pk_column = "id"
    /\ filters[Len(filters)] =
           <<"name =", PyList(<<PyList(<<PyUnicode("x")>>),
                                PyList(<<PyUnicode("y")>>)>>)>>

\* C6: once a sort key is set it stays the key the first call set: a later
\* add_ordering with the same column and direction succeeds, one that
\* differs in column or in direction raises NotImplementedError, and both
\* leave the sort key unchanged.
C6_SingleSortKey ==
    [][ sort_by # None =>
          /\ sort_by' = sort_by
          /\ IsCall("add_ordering") =>
                LET descending == last'.direction \in {"DESC", "desc"}
                    first_descending == StartsWith(sort_by.text, "-")
                    first_column == IF first_descending
                                    THEN SliceFrom(sort_by.text, 1)
                                    ELSE sort_by.text
                    identical == /\ last'.column = first_column
                                 /\ descending = first_descending
                IN  /\ identical => last'.raised = "none"
                    /\ ~identical => last'.raised = "NotImplementedError"
      ]_vars

\* C6 witness: after add_ordering(name, DESC) a call that differs only in
\* direction was refused and the key is still '-name'.
C6_Witness ==
    /\ last.op = "add_ordering"
    /\ last.column = "name"
    /\ last.direction = "ASC"
    /\ last.raised = "NotImplementedError"
    /\ sort_by = PyStr("-name")

\* C7: on a query with no sort key, add_ordering(column, direction) sets the
\* sort key to 'column' for ascending and '-column' for descending; order_by
\* splits an ordering entry '-x' into (x, DESC) and 'x' into (x, ASC).
C7_SignedSortKey ==
    [][ /\ (IsCall("add_ordering") /\ sort_by = None) =>
              /\ last'.raised = "none"
              /\ sort_by' = PyStr(IF last'.direction \in {"DESC", "desc"}
                                  THEN "-" \o last'.column
                                  ELSE last'.column)
        /\ IsCall("order_by") =>
              \A i \in 1..Len(last'.made) :
                 \E x \in Columns :
                    \/ /\ last'.ordering[i] = "-" \o x
                       /\ last'.made[i].parsed = x
                       /\ last'.made[i].direction = "DESC"
                    \/ /\ last'.ordering[i] = x
                       /\ last'.made[i].parsed = x
                       /\ last'.made[i].direction = "ASC"
        /\ (IsCall("order_by") /\ sort_by = None /\ Len(last'.ordering) = 1) =>
              /\ last'.raised = "none"
              /\ Len(last'.made) = 1
              /\ sort_by' = PyStr(IF last'.made[1].direction = "DESC"
                                  THEN "-" \o Attr(last'.made[1].parsed)
                                  ELSE Attr(last'.made[1].parsed))
      ]_vars

\* C7 witness: order_by(['-name']) on a fresh query has called
\* add_ordering(name, DESC) and the sort key is '-name'.
C7_Witness ==
    /\ last.op = "order_by"
    /\ last.ordering = <<"-name">>
    /\ pk_column = "id"
    /\ calls = 1
    /\ last.made = <<[parsed |-> "name", column |-> "name", direction |-> "DESC"]>>
    /\ sort_by = PyStr("-name")

\* C8: for 0 <= low_mark < high_mark <= AWS_MAX_RESULT_SIZE and a store that
\* holds at least high_mark rows for the query, fetch(low_mark, high_mark)
\* skips the first low_mark rows and yields exactly the high_mark - low_mark
\* entities at positions low_mark .. high_mark - 1.
C8_RangeFetchWindow ==
    (/\ last.op = "fetch"
     /\ last.high_mark # None
     /\ last.low_mark.int < last.high_mark.int
     /\ last.high_mark.int <= AWS_MAX_RESULT_SIZE
     /\ Len(last.rows) >= last.high_mark.int) =>
        LET low == last.low_mark.int
            high == last.high_mark.int
        IN  /\ Len(last.result) = high - low
            /\ \A i \in 1..(high - low) :
                  /\ pk_column \in DOMAIN last.result[i]
                  /\ last.result[i][pk_column] = last.rows[low + i]["_id"]

\* C9: whenever high_mark is set and high_mark <= low_mark,
\* fetch(low_mark, high_mark) yields nothing, whatever the store holds.
C9_EmptyWindow ==
    (/\ last.op = "fetch"
     /\ last.high_mark # None
     /\ last.high_mark.int <= last.low_mark.int) =>
        last.result = <<>>

\* C10: for every high_mark above AWS_MAX_RESULT_SIZE and every low_mark,
\* fetch(low_mark, high_mark) yields at most high_mark - low_mark entities
\* (stated here for the windows with low_mark < high_mark; the others are
\* the empty windows of C9).
C10_CeilingWindow ==
    (/\ last.op = "fetch"
     /\ last.high_mark # None
     /\ last.high_mark.int > AWS_MAX_RESULT_SIZE
     /\ last.low_mark.int < last.high_mark.int) =>
        Len(last.result) <= last.high_mark.int - last.low_mark.int

C12_PkRename ==
    last.op = "fetch" =>
        /\ Len(last.result) <= Len(last.rows)
        /\ \A i \in 1..Len(last.result) :
              LET entity == last.result[i]
                  row == last.rows[i]
              IN  /\ "_id" \notin DOMAIN entity
                  /\ pk_column \in DOMAIN entity
                  /\ entity[pk_column] = row["_id"]
                  /\ DOMAIN entity \ {pk_column} = DOMAIN row \ {"_id", pk_column}
                  /\ \A k \in DOMAIN entity \ {pk_column} : entity[k] = row[k]

\* C13: an error the store client raises during fetch (the consumption of
\* its lazy result included), count or delete reaches the caller as
\* DatabaseError with the arguments of the store's exception, never as the
\* store's own exception.
C13_StoreErrorsWrapped ==
    (/\ last.op \in {"fetch", "count", "delete"}
     /\ last.store # NoFailure) =>
        /\ last.raised = "DatabaseError"
        /\ last.args = last.store.args

\* C14: save_entity on data without '_id' generates an identifier, writes
\* the entity under it with replace=True and returns it; the attribute map
\* written holds exactly '_id' (the generated identifier), '__type__' and
\* the fields of data with their values; the caller's data is not modified.
C14_SaveWithoutId ==
    (/\ last.op = "save_entity"
     /\ "_id" \notin DOMAIN last.data
     /\ last.raised = "none") =>
        LET attrs == last.put.attributes IN
        /\ last.generated
        /\ last.put.item_name = last.uuid4
        /\ last.put.replace
        /\ last.result = last.uuid4
        /\ DOMAIN attrs = DOMAIN last.data \cup {"_id", "__type__"}
        /\ attrs["_id"] = last.uuid4
        /\ \A k \in DOMAIN last.data : attrs[k] = last.data[k]
        /\ last.data_after = last.data

\* C14 witness: {'name': u'foo'} of model M was written under a generated
\* identifier.
C14_Witness ==
    /\ last.op = "save_entity"
    /\ last.model = "M"
    /\ last.data = ("name" :> PyUnicode("foo"))
    /\ last.raised = "none"
    /\ last.generated
    /\ last.result = PyLong(1001)
    /\ last.put.attributes =
           ("_id" :> PyLong(1001)) @@ ("__type__" :> PyStr("simpledb_m"))
               @@ ("name" :> PyUnicode("foo"))

\* C15: save_entity on data that carries '_id' returns the supplied
\* identifier, writes the entity under exactly that identifier and
\* generates no identifier.
C15_SaveWithId ==
    (/\ last.op = "save_entity"
     /\ "_id" \in DOMAIN last.data
     /\ last.raised = "none") =>
        /\ last.result = last.data["_id"]
        /\ last.put.item_name = last.data["_id"]
        /\ last.put.attributes["_id"] = last.data["_id"]
        /\ ~last.generated

\* C15 witness: data with '_id' u'xxxx' was written under u'xxxx'.
C15_Witness ==
    /\ last.op = "save_entity"
    /\ last.data = ("name" :> PyUnicode("foo")) @@ ("_id" :> PyUnicode("xxxx"))
    /\ last.raised = "none"
    /\ last.result = PyUnicode("xxxx")
    /\ last.put.item_name = PyUnicode("xxxx")
    /\ ~last.generated

\* C16: for every model and every data, whatever its keys, the attribute
\* map save_entity writes has '__type__' equal to the domain name of the
\* model and has exactly one '_id'.
C16_TypeDiscriminator ==
    last.op = "save_entity" =>
        /\ "__type__" \in DOMAIN last.put.attributes
        /\ last.put.attributes["__type__"].text = domain_for_model(last.model)
        /\ "_id" \in DOMAIN last.put.attributes

\* C17: for every type tag with both directions defined (date, datetime,
\* long, int and ListField:<subtype> over those) and every value v of the
\* type of the tag, convert_value_from_db(tag, convert_value_for_db(tag, v))
\* is a value equal to v.
C17_RoundTrip ==
    last.op = "convert" =>
        /\ ~IsRaise(last.loaded)
        /\ PyEq(last.loaded, last.value)

\* C18: insert calls save_entity with the model and with the data in which
\* the primary-key column is renamed to '_id' (same value, the primary-key
\* column's key gone) when data holds the primary-key column, with the data
\* as it is when it does not, and returns what save_entity returns.
C18_InsertRenamesPk ==
    last.op = "insert" =>
        LET data == last.data
            passed == last.passed
        IN  /\ last.saved.data = passed
            /\ last.saved.put.domain = domain_for_model(last.model)
            /\ pk_column \in DOMAIN data =>
                  /\ DOMAIN passed = (DOMAIN data \ {pk_column}) \cup {"_id"}
                  /\ passed["_id"] = data[pk_column]
                  /\ \A k \in DOMAIN data \ {pk_column, "_id"} :
                        passed[k] = data[k]
            /\ pk_column \notin DOMAIN data => passed = data
            /\ last.raised = "none" => last.result = last.saved.value

\* C19: when the column of an add_filter call, or an entry of an order_by
\* call with its leading '-' taken off, is the primary-key column of the
\* model, the filter key or sort key is written with '_id'; every other
\* column name is written as it is.
C19_PkRewrite ==
    [][ /\ (IsCall("add_filter") /\ last'.raised = "none") =>
              LET key == filters'[Len(filters')][1]
                  name == IF last'.column = pk_column THEN "_id"
                          ELSE last'.column
              IN  /\ Len(filters') = Len(filters) + 1
                  /\ StartsWith(key, name \o " ")
                  /\ \A c \in Columns \cup {"_id"} :
                        c # name => ~StartsWith(key, c \o " ")
        /\ IsCall("order_by") =>
              \A i \in 1..Len(last'.made) :
                 LET entry == last'.ordering[i]
                     signed == StartsWith(entry, "-")
                     name == IF signed THEN SliceFrom(entry, 1) ELSE entry
                     written == IF name = pk_column THEN "_id" ELSE name
                 IN  /\ last'.made[i].column = written
                     /\ (i = 1 /\ sort_by = None) =>
                           sort_by' = PyStr(IF signed THEN "-" \o written
                                            ELSE written)
      ]_vars

\* C19 witness: on a model with primary-key column 'id', a filter on 'id'
\* was written '_id =' and order_by(['-id']) has set the sort key '-_id'.
C19_Witness ==
    /\ pk_column = "id"
    /\ last.op = "order_by"
    /\ last.ordering = <<"-id">>
    /\ last.raised = "none"
    /\ sort_by = PyStr("-_id")
    /\ Len(filters) = 1
    /\ filters[1][1] = "_id ="

\* C20: the filter list starts empty; each successful add_filter appends
\* exactly its translated filter at the end and leaves the earlier entries
\* and the sort key as they were, a failed add_filter appends nothing, and
\* add_ordering and order_by, successful or failed, leave the filter list as
\* it was: the list is the sequence of the translated filters of the
\* successful add_filter calls in call order.
C20_FilterFrame ==
    /\ filters = <<>>
    /\ [][ /\ IsCall("add_filter") =>
                 LET c == last'
                     translated == add_filter(pk_column, c.column, c.lookup_type,
                                              c.negated, c.db_type, c.value)
                 IN  /\ sort_by' = sort_by
                     /\ c.raised = translated.raised
                     /\ c.raised = "none" =>
                           /\ Len(filters') = Len(filters) + 1
                           /\ SubSeq(filters', 1, Len(filters)) = filters
                           /\ filters'[Len(filters')] = translated.entry
                     /\ c.raised # "none" => filters' = filters
           /\ (IsCall("add_ordering") \/ IsCall("order_by")) => filters' = filters
           /\ Len(filters') <= calls'
         ]_vars

\* C20 witness: after a sort key was set, a second add_filter came after a
\* first one; the list holds both filters in call order.
C20_Witness ==
    /\ pk_column = "id"
    /\ calls = 2
    /\ last.op = "add_filter"
    /\ last.lookup_type = "gt"
    /\ last.raised = "none"
    /\ filters = << <<"name =", PyUnicode("x")>>, <<"_id >", PyUnicode("12")>> >>

====
